---- MODULE Spec2Model ----
(***************************************************************************)
(* Round behaviours of the learning_abci skill                             *)
(* (packages/valory/skills/learning_abci/behaviours.py).                   *)
(*                                                                         *)
(* Every agent runs one behaviour per round.  A behaviour's async_act is a *)
(* generator: each action below is the code between two suspension points  *)
(* of one agent, and the collaborator's answer the generator is resumed    *)
(* with is the action's input.                                             *)
(*                                                                         *)
(* Python values are tagged records: None, bool, int, float, str, bytes    *)
(* and dict.  Integers that hold wei amounts are kept as e * 10^18 + w     *)
(* in the two fields e and w, so that VAL_ETHER and VAL stay distinct      *)
(* without leaving the integer range of the model checker.  Strings that   *)
(* the code slices are sequences of one-character strings.                 *)
(***************************************************************************)
EXTENDS Integers, Sequences, FiniteSets, TLC

\* ------------------------------------------------------------------ bounds
MaxBalance == 6

\* ----------------------------------------------------------- python values
PyNone == [t |-> "None"]
PyFalse == [t |-> "bool", b |-> FALSE]
PyInt(e, w) == [t |-> "int", e |-> e, w |-> w]
PyFloat(whole, frac) == [t |-> "float", whole |-> whole, frac |-> frac]
PyStr(s) == [t |-> "str", s |-> s]
PyBytes(by) == [t |-> "bytes", by |-> by]

\* int + int; the low parts used by the model never carry
IntAdd(x, y) == PyInt(x.e + y.e, x.w + y.w)

\* x / 10**18 for an int x: the quotient, whole part and 10^-18 parts
DivE18(x) == PyFloat(x.e, x.w)

\* bool is a subclass of int in python: False compares as 0
AsNumber(x) == IF x.t = "bool" THEN PyFloat(IF x.b THEN 1 ELSE 0, 0) ELSE x

\* x < n for a python number x and a literal integer n
LessThanLiteral(x, n) == AsNumber(x).whole < n

\* a mutant of Slice2: the prefix is taken off twice
Slice2_twice(s) == PyStr(SubSeq(s.s, 5, Len(s.s)))

\* s[2:] on a str
Slice2(s) == PyStr(SubSeq(s.s, 3, Len(s.s)))

HexDigits == {"0", "1", "2", "3", "4", "5", "6", "7", "8", "9", "a", "b", "c", "d", "e", "f"}

\* whether bytes.fromhex(s) accepts the text s
IsHex(cs) == Len(cs) % 2 = 0 /\ \A i \in 1..Len(cs) : cs[i] \in HexDigits

\* bytes.fromhex(s): one byte per pair of hex digits
BytesFromHex(s) == PyBytes([i \in 1..(Len(s.s) \div 2) |-> <<s.s[2 * i - 1], s.s[2 * i]>>])

\* b.hex(): two hex digits per byte
BytesHex(b) == PyStr([i \in 1..(2 * Len(b.by)) |-> b.by[(i + 1) \div 2][2 - (i % 2)]])

\* ------------------------------------------------------ module constants
VAL_ETHER == PyInt(1, 0)
VAL == PyInt(0, 1)
GNOSIS_CHAIN_ID == "gnosis"
\* b"0x": the two ASCII bytes 0x30 0x78
TX_DATA == PyBytes(<<<<"3", "0">>, <<"7", "8">>>>)
SAFE_GAS == PyInt(0, 0)

\* ------------------------------------------------------------- the agents
Agents == {"agent_1", "agent_2"}

\* addresses a deployment may configure as transfer_target_address
TargetAddresses == {"0xAAA", "0xBBB"}

ParamSets == [transfer_target_address : TargetAddresses,
              contract_token_address : {"0xT0KEN"},
              multisend_contract_address : {"0xMULTI"}]

SAFE_CONTRACT_ADDRESS == "0xSAFE"

VARIABLES
    params,             \* [Agents -> Params]: each agent's configuration
    round,              \* the round the application is in
    synchronized_data,  \* the data agreed in the rounds so far
    payloads,           \* [Agents -> payload]: payloads the current round holds
    behaviour,          \* [Agents -> the behaviour the agent runs]
    pc,                 \* [Agents -> where the behaviour's async_act stands]
    loc,                \* [Agents -> local variables of async_act]
    req,                \* [Agents -> the request the agent is suspended on]
    trace,              \* [Agents -> what this run of async_act did, in order]
    tmpdirs,            \* [Agents -> number of directories mkdtemp created]
    ipfs                \* [Agents -> number of documents put to storage]

vars == <<params, round, synchronized_data, payloads, behaviour, pc, loc, req,
          trace, tmpdirs, ipfs>>

NoPayload == [t |-> "NoPayload"]
NoRequest == [t |-> "NoRequest"]

Ev(name, x) == [ev |-> name, x |-> x]

\* the run is resumed with an answer, compares its performative with the one
\* kind it expects and reads the body under that kind when they are equal
Classified(result, expected) ==
    <<Ev("response", result), Ev("compare_kind", expected)>>
        \o (IF result.performative = expected THEN <<Ev("read_body", expected)>> ELSE <<>>)

\* the run is resumed with an answer and reads the body under one kind
\* without a look at the performative; a message of another kind has no such
\* body and the read raises
Unclassified(result, expected) ==
    <<Ev("response", result)>>
        \o (IF result.performative = expected THEN <<Ev("read_body", expected)>> ELSE <<>>)

\* --------------------------------------------- contract api collaborator
\* a get_contract_api_response request
ContractApiRequest(performative, contract_address, contract_id, contract_callable, kwargs) ==
    [t |-> "contract_api", performative |-> performative,
     contract_address |-> contract_address, contract_id |-> contract_id,
     contract_callable |-> contract_callable, kwargs |-> kwargs]

RawTransaction(body) == [performative |-> "RAW_TRANSACTION", raw_transaction |-> body]
State(body) == [performative |-> "STATE", state |-> body]
Error == [performative |-> "ERROR"]

\* token amounts the ERC20 contract may report, in wei
TokenAmounts == {PyInt(n, 0) : n \in 0..MaxBalance}

\* texts the safe contract may report as a hash
SafeTxHashes == {PyStr(<<"0", "x", "a", "b">>), PyStr(<<"0", "x", "0", "x", "c", "d">>)}

\* texts the safe contract may report as a native transfer fragment
TransferHashes == {PyStr(<<"0", "x", "1", "1">>)}

\* calldata the ERC20 contract may build for a transfer
TransferCalldata == {PyBytes(<<<<"a", "9">>, <<"0", "5">>>>)}

\* texts the multisend contract may report as the encoded batch
MultisendData == {PyStr(<<"0", "x", "8", "d", "0", "0">>), PyStr(<<"8", "d", "0", "x", "0", "0">>)}

\* the bodies a callable answers with when it answers in the kind asked for
Bodies(request) ==
    CASE request.contract_callable = "check_balance" ->
            {[wallet |-> PyInt(1, 0), token |-> tk] : tk \in TokenAmounts}
      [] request.contract_callable = "get_raw_safe_transaction_hash"
         /\ request.performative = "GET_STATE" ->
            {[tx_hash |-> h] : h \in SafeTxHashes}
      [] request.contract_callable = "get_raw_safe_transaction_hash"
         /\ request.performative = "GET_RAW_TRANSACTION" ->
            {[tx_hash |-> h] : h \in TransferHashes}
      [] request.contract_callable = "build_transfer_tx" ->
            {[data |-> d] : d \in TransferCalldata}
      [] request.contract_callable = "get_tx_data" ->
            {[data |-> d] : d \in MultisendData}

\* every answer the collaborator may give to a request: the kind asked for
\* with a body, the other body-carrying kind, or an error
ContractApiResponses(request) ==
    IF request.performative = "GET_STATE"
    THEN {State(b) : b \in Bodies(request)} \cup {RawTransaction([x |-> PyNone]), Error}
    ELSE {RawTransaction(b) : b \in Bodies(request)} \cup {State([x |-> PyNone]), Error}

\* ------------------------------------------------------ APICheckBehaviour
APICheck_balance_request(p, sd) ==
    ContractApiRequest("GET_RAW_TRANSACTION", p.contract_token_address, "erc20",
        "check_balance",
        [account |-> sd.safe_contract_address, chain_id |-> GNOSIS_CHAIN_ID])

\* a mutant of get_balance: the failed fetch gives None
get_balance_gives_none(result) ==
    IF result.performative # "RAW_TRANSACTION"
    THEN PyNone
    ELSE DivE18(result.raw_transaction.token)

\* what get_balance returns once resumed with the collaborator's answer
get_balance(result) ==
    IF result.performative # "RAW_TRANSACTION"
    THEN PyFalse
    ELSE DivE18(result.raw_transaction.token)

APICheckPayload(sender, price, balance) ==
    [t |-> "APICheckPayload", sender |-> sender, price |-> price, balance |-> balance]

\* ------------------------------------------------ DecisionMakingBehaviour
TRANSACT == "transact"
MULTI_TRANSACT == "multi_transact"

\* a mutant of get_event: the comparison takes 5 itself to the single branch
get_event_up_to_five(sd) ==
    IF LessThanLiteral(sd.balance, 6) THEN TRANSACT ELSE MULTI_TRANSACT

get_event(sd) ==
    IF LessThanLiteral(sd.balance, 5) THEN TRANSACT ELSE MULTI_TRANSACT

DecisionMakingPayload(sender, event) ==
    [t |-> "DecisionMakingPayload", sender |-> sender, event |-> event]

\* ------------------------------------------------- canonical payload encoder
\* hash_payload_to_hex(**args): the fields in their fixed order, each at its
\* own place, the operation being CALL when the caller gives none.  A
\* safe_tx_hash that is not text cannot be laid out and raises.
hash_payload_to_hex_raises(args) == args.safe_tx_hash.t # "str"

hash_payload_to_hex(args) ==
    [t |-> "hex",
     safe_tx_hash |-> args.safe_tx_hash.s,
     ether_value |-> args.ether_value,
     safe_tx_gas |-> args.safe_tx_gas,
     to_address |-> args.to_address,
     operation |-> IF "operation" \in DOMAIN args THEN args.operation ELSE "CALL",
     data |-> args.data.by]

\* ------------------------------------------------- TxPreparationBehaviour
TxPreparation_hash_request(p, sd) ==
    ContractApiRequest("GET_STATE", sd.safe_contract_address, "gnosis_safe",
        "get_raw_safe_transaction_hash",
        [to_address |-> p.transfer_target_address,
         value |-> VAL_ETHER,
         data |-> TX_DATA,
         safe_tx_gas |-> SAFE_GAS,
         chain_id |-> GNOSIS_CHAIN_ID])

\* what get_tx_hash returns once resumed with the collaborator's answer
get_tx_hash(result) ==
    IF result.performative # "STATE"
    THEN PyFalse
    ELSE Slice2(result.state.tx_hash)

\* a mutant of TxPreparation_encoder_args: the encoder is given VAL
TxPreparation_encoder_args_one_wei(p, tx_hash) ==
    [safe_tx_hash |-> tx_hash,
     ether_value |-> VAL,
     safe_tx_gas |-> SAFE_GAS,
     to_address |-> p.transfer_target_address,
     data |-> TX_DATA]

\* the keyword arguments async_act gives hash_payload_to_hex
TxPreparation_encoder_args(p, tx_hash) ==
    [safe_tx_hash |-> tx_hash,
     ether_value |-> VAL_ETHER,
     safe_tx_gas |-> SAFE_GAS,
     to_address |-> p.transfer_target_address,
     data |-> TX_DATA]

TxPreparationPayload(sender, payload_data) ==
    [t |-> "TxPreparationPayload", sender |-> sender,
     tx_submitter |-> "TxPreparationRound", tx_hash |-> payload_data]

\* --------------------------------------------------- MultiSendTxBehaviour
MultiSend_transfer_request(p, sd) ==
    ContractApiRequest("GET_RAW_TRANSACTION", sd.safe_contract_address, "gnosis_safe",
        "get_raw_safe_transaction_hash",
        [to_address |-> p.transfer_target_address,
         value |-> VAL,
         data |-> TX_DATA,
         safe_tx_gas |-> SAFE_GAS,
         chain_id |-> GNOSIS_CHAIN_ID])

\* a mutant of transfer_tx: the call is tagged as a delegate call
transfer_tx_delegate_call(p, response_msg) ==
    IF response_msg.performative # "RAW_TRANSACTION"
    THEN PyNone
    ELSE [t |-> "dict",
          operation |-> "DELEGATE_CALL",
          to |-> p.transfer_target_address,
          value |-> VAL,
          data |-> response_msg.raw_transaction.tx_hash]

\* what transfer_tx returns once resumed with the collaborator's answer
transfer_tx(p, response_msg) ==
    IF response_msg.performative # "RAW_TRANSACTION"
    THEN PyNone
    ELSE [t |-> "dict",
          operation |-> "CALL",
          to |-> p.transfer_target_address,
          value |-> VAL,
          data |-> response_msg.raw_transaction.tx_hash]

MultiSend_token_transfer_request(p) ==
    ContractApiRequest("GET_RAW_TRANSACTION", p.contract_token_address, "erc20",
        "build_transfer_tx",
        [receiver |-> p.transfer_target_address, amount |-> VAL])

\* what token_transfer_tx returns once resumed with the collaborator's answer
token_transfer_tx(p, response_msg) ==
    IF response_msg.performative # "RAW_TRANSACTION"
    THEN PyNone
    ELSE [t |-> "dict",
          operation |-> "CALL",
          to |-> p.contract_token_address,
          value |-> VAL,
          data |-> BytesFromHex(BytesHex(response_msg.raw_transaction.data)),
          chain_id |-> GNOSIS_CHAIN_ID]

\* a mutant of ListAppend: the new call is lost
ListAppend_lost(multisend_txs, tx) == multisend_txs

\* a mutant of ListAppend: the new call goes to the front
ListAppend_in_front(multisend_txs, tx) == <<tx>> \o multisend_txs

\* multisend_txs.append(tx)
ListAppend(multisend_txs, tx) == Append(multisend_txs, tx)

MultiSend_tx_data_request(p, multisend_txs) ==
    ContractApiRequest("GET_RAW_TRANSACTION", p.multisend_contract_address, "multisend",
        "get_tx_data",
        [multi_send_txs |-> multisend_txs, chain_id |-> GNOSIS_CHAIN_ID])

\* whether sum(tx["value"] for tx in multisend_txs) raises: None has no items
SumValuesRaises(multisend_txs) ==
    \E i \in 1..Len(multisend_txs) : multisend_txs[i].t # "dict"

\* a mutant of SumValues: the value of the first call only
SumValues_first_only(multisend_txs) == multisend_txs[1].value

RECURSIVE SumValues(_)
\* sum(tx["value"] for tx in multisend_txs)
SumValues(multisend_txs) ==
    IF multisend_txs = <<>>
    THEN PyInt(0, 0)
    ELSE IntAdd(SumValues(SubSeq(multisend_txs, 1, Len(multisend_txs) - 1)),
                multisend_txs[Len(multisend_txs)].value)

MultiSend_hash_request(p, sd, multisend_txs, multisend_data) ==
    ContractApiRequest("GET_STATE", sd.safe_contract_address, "gnosis_safe",
        "get_raw_safe_transaction_hash",
        [to_address |-> p.transfer_target_address,
         value |-> SumValues(multisend_txs),
         data |-> BytesFromHex(multisend_data),
         operation |-> "DELEGATE_CALL",
         safe_tx_gas |-> SAFE_GAS,
         chain_id |-> GNOSIS_CHAIN_ID])

\* the keyword arguments async_act gives hash_payload_to_hex
MultiSend_encoder_args(p, safe_tx_hash, multisend_txs, multisend_data) ==
    [safe_tx_hash |-> safe_tx_hash,
     ether_value |-> SumValues(multisend_txs),
     safe_tx_gas |-> SAFE_GAS,
     to_address |-> p.transfer_target_address,
     data |-> BytesFromHex(multisend_data),
     operation |-> "DELEGATE_CALL"]

\* a mutant of MultiSendTxPayload: the agent names itself as the submitter
MultiSendTxPayload_own_submitter(sender, tx_hash_payload) ==
    [t |-> "MultiSendTxPayload", sender |-> sender,
     tx_submitter |-> sender, tx_hash |-> tx_hash_payload]

MultiSendTxPayload(sender, tx_hash_payload) ==
    [t |-> "MultiSendTxPayload", sender |-> sender,
     tx_submitter |-> "MultiSendTxRound", tx_hash |-> tx_hash_payload]

\* --------------------------------------------------- IPFS behaviours
IPFSSendPayload(sender, metadata_hash) ==
    [t |-> "IPFSSendPayload", sender |-> sender, metadata_hash |-> metadata_hash]

IPFSGetPayload(sender) == [t |-> "IPFSGetPayload", sender |-> sender]

\* ------------------------------------------------------------------ state
Init ==
    /\ params \in [Agents -> ParamSets]
    /\ round = "APICheckRound"
    /\ synchronized_data = [safe_contract_address |-> SAFE_CONTRACT_ADDRESS,
                            price |-> PyNone, balance |-> PyNone,
                            metadata_hash |-> PyNone, tx_submitter |-> PyNone,
                            most_voted_tx_hash |-> PyNone]
    /\ payloads = [a \in Agents |-> NoPayload]
    /\ behaviour = [a \in Agents |-> "APICheckBehaviour"]
    /\ pc = [a \in Agents |-> "start"]
    /\ loc = [a \in Agents |-> [sender |-> PyNone]]
    /\ req = [a \in Agents |-> NoRequest]
    /\ trace = [a \in Agents |-> <<>>]
    /\ tmpdirs = [a \in Agents |-> 0]
    /\ ipfs = [a \in Agents |-> 0]

\* the round a behaviour is the matching behaviour of
matching_round(b) ==
    CASE b = "APICheckBehaviour" -> "APICheckRound"
      [] b = "IPFSSendBehaviour" -> "IPFSSendRound"
      [] b = "IPFSGetBehaviour" -> "IPFSGetRound"
      [] b = "DecisionMakingBehaviour" -> "DecisionMakingRound"
      [] b = "TxPreparationBehaviour" -> "TxPreparationRound"
      [] b = "MultiSendTxBehaviour" -> "MultiSendTxRound"

Behaviours == {"APICheckBehaviour", "IPFSSendBehaviour", "IPFSGetBehaviour",
               "DecisionMakingBehaviour", "TxPreparationBehaviour",
               "MultiSendTxBehaviour"}

\* async_act of behaviour b is about to run for agent a
Starts(a, b) == behaviour[a] = b /\ pc[a] = "start"

\* async_act of behaviour b is resumed at the suspension point at
Resumes(a, b, at) == behaviour[a] = b /\ pc[a] = at

\* the generator suspends on a contract api request
Request(a, at, request, locals, events) ==
    /\ pc' = [pc EXCEPT ![a] = at]
    /\ req' = [req EXCEPT ![a] = request]
    /\ loc' = [loc EXCEPT ![a] = locals]
    /\ trace' = [trace EXCEPT ![a] = (@ \o events) \o <<Ev("request", request)>>]

\* the generator reaches send_a2a_transaction(payload) and suspends in it
Send(a, payload, locals, events) ==
    /\ pc' = [pc EXCEPT ![a] = "send_a2a_transaction"]
    /\ req' = [req EXCEPT ![a] = NoRequest]
    /\ loc' = [loc EXCEPT ![a] = [locals EXCEPT !.payload = payload]]
    /\ trace' = [trace EXCEPT ![a] = (@ \o events) \o <<Ev("send_a2a_transaction", payload)>>]

\* an exception leaves async_act
Raise(a, exception, events) ==
    /\ pc' = [pc EXCEPT ![a] = "raised"]
    /\ req' = [req EXCEPT ![a] = NoRequest]
    /\ loc' = loc
    /\ trace' = [trace EXCEPT ![a] = (@ \o events) \o <<Ev("raise", exception)>>]

\* async_act returns before its end
Return(a, events) ==
    /\ pc' = [pc EXCEPT ![a] = "returned"]
    /\ req' = [req EXCEPT ![a] = NoRequest]
    /\ loc' = loc
    /\ trace' = [trace EXCEPT ![a] = (@ \o events) \o <<Ev("return", PyNone)>>]

\* ------------------------------------------------------ APICheckBehaviour
\* async_act up to the yield inside get_price
APICheck_async_act(a) ==
    /\ Starts(a, "APICheckBehaviour")
    /\ pc' = [pc EXCEPT ![a] = "get_price"]
    /\ loc' = [loc EXCEPT ![a] = [sender |-> a, price |-> PyNone, balance |-> PyNone,
                                  payload |-> NoPayload]]
    /\ trace' = [trace EXCEPT ![a] = Append(@, Ev("yield", "get_price"))]
    /\ UNCHANGED <<params, round, synchronized_data, payloads, behaviour, req, tmpdirs, ipfs>>

\* get_price after its yield, then get_balance up to its request
APICheck_get_price(a) ==
    /\ Resumes(a, "APICheckBehaviour", "get_price")
    /\ Request(a, "get_balance", APICheck_balance_request(params[a], synchronized_data),
               [loc[a] EXCEPT !.price = PyFloat(1, 0)], <<>>)
    /\ UNCHANGED <<params, round, synchronized_data, payloads, behaviour, tmpdirs, ipfs>>

\* get_balance after the answer, then async_act up to send_a2a_transaction
APICheck_get_balance(a) ==
    /\ Resumes(a, "APICheckBehaviour", "get_balance")
    /\ \E result \in ContractApiResponses(req[a]) :
          LET balance == get_balance(result)
          IN  Send(a, APICheckPayload(loc[a].sender, loc[a].price, balance),
                   [loc[a] EXCEPT !.balance = balance], Classified(result, "RAW_TRANSACTION"))
    /\ UNCHANGED <<params, round, synchronized_data, payloads, behaviour, tmpdirs, ipfs>>

\* ------------------------------------------------ DecisionMakingBehaviour
\* async_act up to send_a2a_transaction
DecisionMaking_async_act(a) ==
    /\ Starts(a, "DecisionMakingBehaviour")
    /\ LET event == get_event(synchronized_data)
       IN  Send(a, DecisionMakingPayload(a, event),
                [sender |-> a, event |-> event, payload |-> NoPayload],
                <<Ev("get_event", event)>>)
    /\ UNCHANGED <<params, round, synchronized_data, payloads, behaviour, tmpdirs, ipfs>>

\* ------------------------------------------------------ IPFSSendBehaviour
\* what requests.post to the subgraph may come back with
SubgraphAnswers == {"ok", "status_not_200", "errors_in_body"}

IPFSPutRequest == [t |-> "send_to_ipfs", filename |-> "large.json", filetype |-> "JSON"]

\* the content address storage may give a stored document
MetadataHashes == {PyStr(<<"Q", "m">>)}

\* async_act through get_subgraph and metadata_filepath up to send_to_ipfs
IPFSSend_async_act(a) ==
    /\ Starts(a, "IPFSSendBehaviour")
    /\ \E answer \in SubgraphAnswers :
          IF answer = "status_not_200"
          THEN /\ Raise(a, "ConnectionError", <<Ev("requests.post", answer)>>)
               /\ UNCHANGED tmpdirs
          ELSE IF answer = "errors_in_body"
          THEN /\ Raise(a, "ValueError", <<Ev("requests.post", answer)>>)
               /\ UNCHANGED tmpdirs
          ELSE /\ Request(a, "send_to_ipfs", IPFSPutRequest,
                          [sender |-> a, metadata_hash |-> PyNone, payload |-> NoPayload],
                          <<Ev("requests.post", answer), Ev("mkdtemp", a)>>)
               /\ tmpdirs' = [tmpdirs EXCEPT ![a] = @ + 1]
    /\ UNCHANGED <<params, round, synchronized_data, payloads, behaviour, ipfs>>

\* _send_large_metadata_to_ipfs after the answer, up to send_a2a_transaction
IPFSSend_send_to_ipfs(a) ==
    /\ Resumes(a, "IPFSSendBehaviour", "send_to_ipfs")
    /\ \E answer \in MetadataHashes \cup {PyNone} :
          LET metadata_hash == IF answer = PyNone THEN PyFalse ELSE answer
          IN  /\ Send(a, IPFSSendPayload(loc[a].sender, metadata_hash),
                      [loc[a] EXCEPT !.metadata_hash = metadata_hash],
                      <<Ev("response", answer)>>)
              /\ ipfs' = [ipfs EXCEPT ![a] = IF answer = PyNone THEN @ ELSE @ + 1]
    /\ UNCHANGED <<params, round, synchronized_data, payloads, behaviour, tmpdirs>>

\* ------------------------------------------------------- IPFSGetBehaviour
IPFSGetRequest(sd) ==
    [t |-> "get_from_ipfs", ipfs_hash |-> sd.metadata_hash, filetype |-> "JSON"]

\* what storage may hand back for a content address
Documents == {[t |-> "dict", data |-> "updateds"], PyNone}

\* a mutant of IPFSGet_async_act: the fetch is given a metadata_filepath
IPFSGet_async_act_makes_directory(a) ==
    /\ Starts(a, "IPFSGetBehaviour")
    /\ Request(a, "get_from_ipfs", IPFSGetRequest(synchronized_data),
               [sender |-> a, metadata |-> PyNone, payload |-> NoPayload],
               <<Ev("mkdtemp", a)>>)
    /\ tmpdirs' = [tmpdirs EXCEPT ![a] = @ + 1]
    /\ UNCHANGED <<params, round, synchronized_data, payloads, behaviour, ipfs>>

\* async_act up to get_from_ipfs
IPFSGet_async_act(a) ==
    /\ Starts(a, "IPFSGetBehaviour")
    /\ Request(a, "get_from_ipfs", IPFSGetRequest(synchronized_data),
               [sender |-> a, metadata |-> PyNone, payload |-> NoPayload], <<>>)
    /\ UNCHANGED <<params, round, synchronized_data, payloads, behaviour, tmpdirs, ipfs>>

\* _get_large_metadata_from_ipfs after the answer, up to send_a2a_transaction
IPFSGet_get_from_ipfs(a) ==
    /\ Resumes(a, "IPFSGetBehaviour", "get_from_ipfs")
    /\ \E metadata \in Documents :
          Send(a, IPFSGetPayload(loc[a].sender),
               [loc[a] EXCEPT !.metadata = metadata], <<Ev("response", metadata)>>)
    /\ UNCHANGED <<params, round, synchronized_data, payloads, behaviour, tmpdirs, ipfs>>

\* ------------------------------------------------- TxPreparationBehaviour
\* async_act into get_tx_hash, up to its request
TxPreparation_async_act(a) ==
    /\ Starts(a, "TxPreparationBehaviour")
    /\ Request(a, "get_tx_hash", TxPreparation_hash_request(params[a], synchronized_data),
               [sender |-> a, tx_hash |-> PyNone, payload |-> NoPayload], <<>>)
    /\ UNCHANGED <<params, round, synchronized_data, payloads, behaviour, tmpdirs, ipfs>>

\* get_tx_hash after the answer, then async_act up to send_a2a_transaction
TxPreparation_get_tx_hash(a) ==
    /\ Resumes(a, "TxPreparationBehaviour", "get_tx_hash")
    /\ \E result \in ContractApiResponses(req[a]) :
          LET tx_hash == get_tx_hash(result)
              args == TxPreparation_encoder_args(params[a], tx_hash)
              events == Classified(result, "STATE") \o <<Ev("hash_payload_to_hex", args)>>
          IN  IF hash_payload_to_hex_raises(args)
              THEN Raise(a, "TypeError", events)
              ELSE Send(a, TxPreparationPayload(loc[a].sender, hash_payload_to_hex(args)),
                        [loc[a] EXCEPT !.tx_hash = tx_hash], events)
    /\ UNCHANGED <<params, round, synchronized_data, payloads, behaviour, tmpdirs, ipfs>>

\* --------------------------------------------------- MultiSendTxBehaviour
\* async_act into transfer_tx, up to its request
MultiSend_async_act(a) ==
    /\ Starts(a, "MultiSendTxBehaviour")
    /\ Request(a, "transfer_tx", MultiSend_transfer_request(params[a], synchronized_data),
               [sender |-> a, multisend_txs |-> <<>>, multisend_data |-> PyNone,
                safe_tx_hash |-> PyNone, payload |-> NoPayload], <<>>)
    /\ UNCHANGED <<params, round, synchronized_data, payloads, behaviour, tmpdirs, ipfs>>

\* a mutant of MultiSend_transfer_tx: the batch encoding is asked for at once,
\* before the token transfer
MultiSend_transfer_tx_encodes_at_once(a) ==
    /\ Resumes(a, "MultiSendTxBehaviour", "transfer_tx")
    /\ \E response_msg \in ContractApiResponses(req[a]) :
          LET tx_1 == transfer_tx(params[a], response_msg)
              multisend_txs == ListAppend(loc[a].multisend_txs, tx_1)
          IN  Request(a, "get_tx_data", MultiSend_tx_data_request(params[a], multisend_txs),
                      [loc[a] EXCEPT !.multisend_txs = multisend_txs],
                      Classified(response_msg, "RAW_TRANSACTION") \o <<Ev("built", tx_1)>>)
    /\ UNCHANGED <<params, round, synchronized_data, payloads, behaviour, tmpdirs, ipfs>>

\* transfer_tx after the answer, the append, token_transfer_tx up to its request
MultiSend_transfer_tx(a) ==
    /\ Resumes(a, "MultiSendTxBehaviour", "transfer_tx")
    /\ \E response_msg \in ContractApiResponses(req[a]) :
          LET tx_1 == transfer_tx(params[a], response_msg)
          IN  Request(a, "token_transfer_tx", MultiSend_token_transfer_request(params[a]),
                      [loc[a] EXCEPT !.multisend_txs = ListAppend(@, tx_1)],
                      Classified(response_msg, "RAW_TRANSACTION") \o <<Ev("built", tx_1)>>)
    /\ UNCHANGED <<params, round, synchronized_data, payloads, behaviour, tmpdirs, ipfs>>

\* token_transfer_tx after the answer, the append, up to the get_tx_data request
MultiSend_token_transfer_tx(a) ==
    /\ Resumes(a, "MultiSendTxBehaviour", "token_transfer_tx")
    /\ \E response_msg \in ContractApiResponses(req[a]) :
          LET tx_2 == token_transfer_tx(params[a], response_msg)
              multisend_txs == ListAppend(loc[a].multisend_txs, tx_2)
          IN  Request(a, "get_tx_data", MultiSend_tx_data_request(params[a], multisend_txs),
                      [loc[a] EXCEPT !.multisend_txs = multisend_txs],
                      Classified(response_msg, "RAW_TRANSACTION") \o <<Ev("built", tx_2)>>)
    /\ UNCHANGED <<params, round, synchronized_data, payloads, behaviour, tmpdirs, ipfs>>

\* async_act after the get_tx_data answer, up to the hash request: the body
\* is read without a look at the kind, and a message of another kind has no
\* raw_transaction to read
MultiSend_get_tx_data(a) ==
    /\ Resumes(a, "MultiSendTxBehaviour", "get_tx_data")
    /\ \E contract_api_msg \in ContractApiResponses(req[a]) :
          LET events == Unclassified(contract_api_msg, "RAW_TRANSACTION")
          IN  IF contract_api_msg.performative # "RAW_TRANSACTION"
              THEN Raise(a, "AEAEnforceError", events)
              ELSE LET multisend_data == Slice2(contract_api_msg.raw_transaction.data)
                   IN  IF SumValuesRaises(loc[a].multisend_txs)
                       THEN Raise(a, "TypeError", events)
                       ELSE IF ~IsHex(multisend_data.s)
                       THEN Raise(a, "ValueError", events)
                       ELSE Request(a, "get_raw_safe_transaction_hash",
                                MultiSend_hash_request(params[a], synchronized_data,
                                    loc[a].multisend_txs, multisend_data),
                                [loc[a] EXCEPT !.multisend_data = multisend_data], events)
    /\ UNCHANGED <<params, round, synchronized_data, payloads, behaviour, tmpdirs, ipfs>>

\* a mutant of MultiSend_hash_unavailable: the failure is logged and the run goes on
MultiSend_hash_unavailable_goes_on(a, events) ==
    Send(a, MultiSendTxPayload(loc[a].sender, PyNone), loc[a], events)

\* a mutant of MultiSend_hash_unavailable: the hash is asked for again
MultiSend_hash_unavailable_retries(a, events) ==
    IF Len(trace[a]) < 20
    THEN Request(a, "get_raw_safe_transaction_hash", req[a], loc[a], events)
    ELSE Return(a, events)

\* the answer to the hash request is not a STATE: the error is logged and
\* async_act returns None
MultiSend_hash_unavailable(a, events) == Return(a, events)

\* async_act after the hash answer, up to send_a2a_transaction or the return
MultiSend_get_safe_tx_hash(a) ==
    /\ Resumes(a, "MultiSendTxBehaviour", "get_raw_safe_transaction_hash")
    /\ \E contract_api_msg \in ContractApiResponses(req[a]) :
          IF contract_api_msg.performative # "STATE"
          THEN MultiSend_hash_unavailable(a, Classified(contract_api_msg, "STATE"))
          ELSE LET safe_tx_hash == Slice2(contract_api_msg.state.tx_hash)
                   args == MultiSend_encoder_args(params[a], safe_tx_hash,
                               loc[a].multisend_txs, loc[a].multisend_data)
                   events == Classified(contract_api_msg, "STATE")
                                 \o <<Ev("hash_payload_to_hex", args)>>
               IN  Send(a, MultiSendTxPayload(loc[a].sender, hash_payload_to_hex(args)),
                        [loc[a] EXCEPT !.safe_tx_hash = safe_tx_hash], events)
    /\ UNCHANGED <<params, round, synchronized_data, payloads, behaviour, tmpdirs, ipfs>>

\* a mutant of send_a2a_transaction: the generator ends once the payload is
\* delivered, without the wait
send_a2a_transaction_then_returns(a) ==
    /\ pc[a] = "send_a2a_transaction"
    /\ payloads' = [payloads EXCEPT ![a] = loc[a].payload]
    /\ pc' = [pc EXCEPT ![a] = "returned"]
    /\ trace' = [trace EXCEPT ![a] = Append(@, Ev("return", PyNone))]
    /\ UNCHANGED <<params, round, synchronized_data, behaviour, loc, req, tmpdirs, ipfs>>

\* ------------------------------------------- the end of every async_act
\* send_a2a_transaction returns, the round holding the payload, and
\* wait_until_round_end begins
send_a2a_transaction(a) ==
    /\ pc[a] = "send_a2a_transaction"
    /\ payloads' = [payloads EXCEPT ![a] = loc[a].payload]
    /\ pc' = [pc EXCEPT ![a] = "wait_until_round_end"]
    /\ trace' = [trace EXCEPT ![a] = Append(@, Ev("wait_until_round_end", PyNone))]
    /\ UNCHANGED <<params, round, synchronized_data, behaviour, loc, req, tmpdirs, ipfs>>

\* a mutant of set_done: the behaviour is marked done without the wait
set_done_without_wait(a) ==
    /\ pc[a] = "wait_until_round_end"
    /\ pc' = [pc EXCEPT ![a] = "done"]
    /\ trace' = [trace EXCEPT ![a] = Append(@, Ev("set_done", PyNone))]
    /\ UNCHANGED <<params, round, synchronized_data, payloads, behaviour, loc, req,
                   tmpdirs, ipfs>>

\* wait_until_round_end returns once the round is over, then set_done
set_done(a) ==
    /\ pc[a] = "wait_until_round_end"
    /\ round # matching_round(behaviour[a])
    /\ pc' = [pc EXCEPT ![a] = "done"]
    /\ trace' = [trace EXCEPT ![a] = Append(@, Ev("set_done", PyNone))]
    /\ UNCHANGED <<params, round, synchronized_data, payloads, behaviour, loc, req,
                   tmpdirs, ipfs>>

\* --------------------------------------------------------- the rounds
\* a payload without the field that names its sender
Content(payload) == [payload EXCEPT !.sender = "any"]

\* the round that follows, given the payload the agents agreed on
next_round(agreed) ==
    CASE round = "APICheckRound" -> "IPFSSendRound"
      [] round = "IPFSSendRound" -> "IPFSGetRound"
      [] round = "IPFSGetRound" -> "DecisionMakingRound"
      [] round = "DecisionMakingRound" ->
            IF agreed.event = TRANSACT THEN "TxPreparationRound" ELSE "MultiSendTxRound"
      [] round = "TxPreparationRound" -> "FinishedTxPreparationRound"
      [] round = "MultiSendTxRound" -> "FinishedTxPreparationRound"

\* the synchronized data after the round, given the agreed payload
update_synchronized_data(agreed) ==
    CASE round = "APICheckRound" ->
            [synchronized_data EXCEPT !.price = agreed.price, !.balance = agreed.balance]
      [] round = "IPFSSendRound" ->
            [synchronized_data EXCEPT !.metadata_hash = agreed.metadata_hash]
      [] round \in {"TxPreparationRound", "MultiSendTxRound"} ->
            [synchronized_data EXCEPT !.tx_submitter = agreed.tx_submitter,
                                      !.most_voted_tx_hash = agreed.tx_hash]
      [] OTHER -> synchronized_data

\* every agent's payload is in and they agree: the round ends
end_block ==
    /\ \A a \in Agents : payloads[a] # NoPayload
    /\ \A a, b \in Agents : Content(payloads[a]) = Content(payloads[b])
    /\ LET agreed == Content(payloads[CHOOSE a \in Agents : TRUE])
       IN  /\ round' = next_round(agreed)
           /\ synchronized_data' = update_synchronized_data(agreed)
    /\ payloads' = [a \in Agents |-> NoPayload]
    /\ UNCHANGED <<params, behaviour, pc, loc, req, trace, tmpdirs, ipfs>>

\* the behaviour that matches the new round is scheduled for a done agent
schedule_behaviour(a) ==
    /\ pc[a] = "done"
    /\ \E b \in Behaviours :
          /\ matching_round(b) = round
          /\ behaviour' = [behaviour EXCEPT ![a] = b]
    /\ pc' = [pc EXCEPT ![a] = "start"]
    /\ loc' = [loc EXCEPT ![a] = [sender |-> PyNone]]
    /\ trace' = [trace EXCEPT ![a] = <<>>]
    /\ UNCHANGED <<params, round, synchronized_data, payloads, req, tmpdirs, ipfs>>

\* ----------------------------------------------------------- the system
Next ==
    \/ \E a \in Agents :
          \/ APICheck_async_act(a)
          \/ APICheck_get_price(a)
          \/ APICheck_get_balance(a)
          \/ IPFSSend_async_act(a)
          \/ IPFSSend_send_to_ipfs(a)
          \/ IPFSGet_async_act(a)
          \/ IPFSGet_get_from_ipfs(a)
          \/ DecisionMaking_async_act(a)
          \/ TxPreparation_async_act(a)
          \/ TxPreparation_get_tx_hash(a)
          \/ MultiSend_async_act(a)
          \/ MultiSend_transfer_tx(a)
          \/ MultiSend_token_transfer_tx(a)
          \/ MultiSend_get_tx_data(a)
          \/ MultiSend_get_safe_tx_hash(a)
          \/ send_a2a_transaction(a)
          \/ set_done(a)
          \/ schedule_behaviour(a)
    \/ end_block

Spec == Init /\ [][Next]_vars

\* the steps of agent a's generator: act() is called on every tick, and
\* resumes the generator once the answer it waits for has arrived
AgentStep(a) ==
    \/ APICheck_async_act(a)
    \/ APICheck_get_price(a)
    \/ APICheck_get_balance(a)
    \/ IPFSSend_async_act(a)
    \/ IPFSSend_send_to_ipfs(a)
    \/ IPFSGet_async_act(a)
    \/ IPFSGet_get_from_ipfs(a)
    \/ DecisionMaking_async_act(a)
    \/ TxPreparation_async_act(a)
    \/ TxPreparation_get_tx_hash(a)
    \/ MultiSend_async_act(a)
    \/ MultiSend_transfer_tx(a)
    \/ MultiSend_token_transfer_tx(a)
    \/ MultiSend_get_tx_data(a)
    \/ MultiSend_get_safe_tx_hash(a)
    \/ send_a2a_transaction(a)
    \/ set_done(a)
    \/ schedule_behaviour(a)

\* every collaborator answers in the end, every agent is ticked again and
\* again, and a round whose payloads are in and agree ends
FairSpec ==
    /\ Spec
    /\ \A a \in Agents : WF_vars(AgentStep(a))
    /\ WF_vars(end_block)

\* ------------------------------------------------------------ properties
\* the events of one kind in a run, in order
EventsOf(a, name) == SelectSeq(trace[a], LAMBDA e : e.ev = name)

Did(a, name) == \E i \in DOMAIN trace[a] : trace[a][i].ev = name

\* positions of the answers to the signing-hash request in agent a's run
HashAnswers(a) ==
    {i \in DOMAIN trace[a] : /\ i > 1
                             /\ trace[a][i].ev = "response"
                             /\ trace[a][i - 1].ev = "request"
                             /\ trace[a][i - 1].x.performative = "GET_STATE"}

\* positions of the requests for a callable in agent a's run
RequestsFor(a, performative, callable) ==
    {i \in DOMAIN trace[a] : /\ trace[a][i].ev = "request"
                             /\ trace[a][i].x.t = "contract_api"
                             /\ trace[a][i].x.performative = performative
                             /\ trace[a][i].x.contract_callable = callable}

HashFailed(a) == \E i \in HashAnswers(a) : trace[a][i].x.performative # "STATE"

\* C1: in TxPreparationBehaviour, after an answer to the hash request of a
\* kind other than STATE, hash_payload_to_hex is not invoked, and
\* send_a2a_transaction is not reached: no payload is submitted.
C1_SingleHashFailureSubmitsNothing ==
    \A a \in Agents :
        (behaviour[a] = "TxPreparationBehaviour" /\ HashFailed(a)) =>
            /\ ~Did(a, "hash_payload_to_hex")
            /\ ~Did(a, "send_a2a_transaction")
            /\ payloads[a] = NoPayload

\* C2: in MultiSendTxBehaviour, after an answer to the hash request of a
\* kind other than STATE, the run has ended, the encoder was not invoked, no
\* payload was submitted and the hash request was issued once only.
C2_BatchHashFailureEndsRun ==
    \A a \in Agents :
        (behaviour[a] = "MultiSendTxBehaviour" /\ HashFailed(a)) =>
            /\ pc[a] = "returned"
            /\ ~Did(a, "hash_payload_to_hex")
            /\ ~Did(a, "send_a2a_transaction")
            /\ payloads[a] = NoPayload
            /\ Cardinality(RequestsFor(a, "GET_STATE", "get_raw_safe_transaction_hash")) = 1

C2_Witness ==
    \E a \in Agents :
        /\ behaviour[a] = "MultiSendTxBehaviour"
        /\ pc[a] = "returned"
        /\ \E i \in HashAnswers(a) : trace[a][i].x.performative = "ERROR"

\* C3: in MultiSendTxBehaviour, once transfer_tx or token_transfer_tx has
\* returned the no-call sentinel, no batch-encoding request and no hash
\* request is issued and no payload is submitted; the sentinel is never in
\* the list handed to the batch-encoding collaborator.
C3_SentinelAbortsBatch ==
    \A a \in Agents :
        behaviour[a] = "MultiSendTxBehaviour" =>
            /\ (\E i \in DOMAIN trace[a] : trace[a][i].ev = "built" /\ trace[a][i].x = PyNone)
                  => /\ RequestsFor(a, "GET_RAW_TRANSACTION", "get_tx_data") = {}
                     /\ RequestsFor(a, "GET_STATE", "get_raw_safe_transaction_hash") = {}
                     /\ ~Did(a, "send_a2a_transaction")
            /\ \A i \in RequestsFor(a, "GET_RAW_TRANSACTION", "get_tx_data") :
                  \A j \in DOMAIN trace[a][i].x.kwargs.multi_send_txs :
                      trace[a][i].x.kwargs.multi_send_txs[j] # PyNone

\* sum of the value fields of a list of calls, taken from the first call on
TotalValue(calls) ==
    LET total[n \in 0..Len(calls)] ==
            IF n = 0 THEN [e |-> 0, w |-> 0]
            ELSE [e |-> total[n - 1].e + calls[n].value.e,
                  w |-> total[n - 1].w + calls[n].value.w]
    IN  PyInt(total[Len(calls)].e, total[Len(calls)].w)

\* the list of calls agent a handed to the batch-encoding collaborator
HandedCalls(a) ==
    LET i == CHOOSE i \in RequestsFor(a, "GET_RAW_TRANSACTION", "get_tx_data") : TRUE
    IN  trace[a][i].x.kwargs.multi_send_txs

\* C4: in a MultiSendTxBehaviour run that reaches the hash request, the value
\* sent to the signing-hash collaborator, and the ether_value given to the
\* encoder, are the sum of the values of the calls handed to the
\* batch-encoding collaborator, all of which are calls.
C4_BatchValueConservation ==
    \A a \in Agents :
        behaviour[a] = "MultiSendTxBehaviour" =>
            /\ \A i \in RequestsFor(a, "GET_STATE", "get_raw_safe_transaction_hash") :
                  /\ \A j \in DOMAIN HandedCalls(a) : HandedCalls(a)[j].t = "dict"
                  /\ trace[a][i].x.kwargs.value = TotalValue(HandedCalls(a))
            /\ \A i \in DOMAIN trace[a] :
                  trace[a][i].ev = "hash_payload_to_hex" =>
                      trace[a][i].x.ether_value = TotalValue(HandedCalls(a))

C4_Witness ==
    \E a \in Agents :
        /\ behaviour[a] = "MultiSendTxBehaviour"
        /\ Did(a, "hash_payload_to_hex")
        /\ Len(HandedCalls(a)) = 2
        /\ \E i \in RequestsFor(a, "GET_STATE", "get_raw_safe_transaction_hash") :
              trace[a][i].x.kwargs.value = PyInt(0, 2)

\* C5: the list handed to the batch-encoding collaborator is the calls in
\* the order they were built, the result of transfer_tx first and the result
\* of token_transfer_tx second, each once.
C5_BatchOrderPreserved ==
    \A a \in Agents :
        behaviour[a] = "MultiSendTxBehaviour" =>
            \A i \in RequestsFor(a, "GET_RAW_TRANSACTION", "get_tx_data") :
                LET built == EventsOf(a, "built")
                    handed == trace[a][i].x.kwargs.multi_send_txs
                IN  /\ Len(built) = 2
                    /\ handed = <<built[1].x, built[2].x>>
                    /\ built[1].x.t = "dict" =>
                          /\ built[1].x.to = params[a].transfer_target_address
                          /\ "chain_id" \notin DOMAIN built[1].x
                    /\ built[2].x.t = "dict" =>
                          /\ built[2].x.to = params[a].contract_token_address
                          /\ "chain_id" \in DOMAIN built[2].x

C5_Witness ==
    \E a \in Agents :
        /\ behaviour[a] = "MultiSendTxBehaviour"
        /\ pc[a] = "get_tx_data"
        /\ \A j \in DOMAIN HandedCalls(a) : HandedCalls(a)[j].t = "dict"
        /\ HandedCalls(a)[1] # HandedCalls(a)[2]

\* the answers agent a's run was resumed with, in order
AnswersOf(a) ==
    LET answers == EventsOf(a, "response")
    IN  [i \in DOMAIN answers |-> answers[i].x]

\* the payload agent a's run gave send_a2a_transaction
Submitted(a) == EventsOf(a, "send_a2a_transaction")[1].x

TransactionBehaviours == {"TxPreparationBehaviour", "MultiSendTxBehaviour"}

\* two different agents ran the same transaction behaviour up to the
\* submission, with the same configuration and the same answers
SameRun(a, b) ==
    /\ a # b
    /\ behaviour[a] \in TransactionBehaviours
    /\ behaviour[b] = behaviour[a]
    /\ params[a] = params[b]
    /\ Did(a, "send_a2a_transaction")
    /\ Did(b, "send_a2a_transaction")
    /\ AnswersOf(a) = AnswersOf(b)

\* C6: two agents that run the same transaction behaviour with the same
\* configuration and the same answers at every suspension point submit
\* payloads with the same tx_hash and the same tx_submitter.
C6_CrossAgentDeterminism ==
    \A a, b \in Agents :
        SameRun(a, b) =>
            /\ Submitted(a).tx_hash = Submitted(b).tx_hash
            /\ Submitted(a).tx_submitter = Submitted(b).tx_submitter
            /\ Submitted(a).sender # Submitted(b).sender

C6_Witness ==
    \E a, b \in Agents :
        /\ SameRun(a, b)
        /\ behaviour[a] = "MultiSendTxBehaviour"
        /\ Submitted(a).tx_hash = Submitted(b).tx_hash

\* C7: for an agreed balance b that is a number, get_event gives TRANSACT
\* when b < 5 and MULTI_TRANSACT when b >= 5, the same for every agent, and
\* the decision stage issues no request.
C7_BranchSelection ==
    \A a \in Agents :
        (/\ behaviour[a] = "DecisionMakingBehaviour"
         /\ Did(a, "get_event")
         /\ synchronized_data.balance.t = "float") =>
            LET event == EventsOf(a, "get_event")[1].x
            IN  /\ synchronized_data.balance.whole < 5 => event = TRANSACT
                /\ synchronized_data.balance.whole >= 5 => event = MULTI_TRANSACT
                /\ Submitted(a).event = event
                /\ ~Did(a, "request")
                /\ \A b \in Agents :
                      (behaviour[b] = behaviour[a] /\ Did(b, "get_event")) =>
                          EventsOf(b, "get_event")[1].x = event

C7_Witness ==
    \E a \in Agents :
        /\ behaviour[a] = "DecisionMakingBehaviour"
        /\ synchronized_data.balance = PyFloat(5, 0)
        /\ Did(a, "get_event")
        /\ Submitted(a).event = MULTI_TRANSACT

\* C8: when the agreed balance is the False sentinel of a failed balance
\* fetch, DecisionMakingBehaviour selects neither the single-transfer nor the
\* batch-transfer branch from it.
C8_SentinelNeverDecides ==
    \A a \in Agents :
        (behaviour[a] = "DecisionMakingBehaviour" /\ synchronized_data.balance = PyFalse) =>
            \A i \in DOMAIN trace[a] :
                trace[a][i].ev = "send_a2a_transaction" =>
                    trace[a][i].x.event \notin {TRANSACT, MULTI_TRANSACT}

\* text without its first two characters
WithoutFirstTwo(cs) == [i \in 1..(Len(cs) - 2) |-> cs[i + 2]]

\* the answer the encoder call at position i of agent a's run follows
HashAnswerBefore(a, i) ==
    LET j == CHOOSE j \in 1..(i - 1) :
                 /\ trace[a][j].ev = "response"
                 /\ \A k \in (j + 1)..(i - 1) : trace[a][k].ev # "response"
    IN  trace[a][j].x

\* the answer of the batch-encoding collaborator in agent a's run
BatchAnswer(a) ==
    LET i == CHOOSE i \in RequestsFor(a, "GET_RAW_TRANSACTION", "get_tx_data") : TRUE
    IN  trace[a][i + 1].x

\* C9: the safe_tx_hash given to the encoder is the tx_hash of the
\* signing-hash collaborator's STATE answer without its first 2 characters,
\* in both paths; the data of the batch, written as hex, is the data of the
\* batch-encoding collaborator's answer without its first 2 characters.
C9_PrefixStrippedOnce ==
    \A a \in Agents :
        behaviour[a] \in TransactionBehaviours =>
            \A i \in DOMAIN trace[a] :
                (/\ trace[a][i].ev = "hash_payload_to_hex"
                 /\ HashAnswerBefore(a, i).performative = "STATE") =>
                    /\ trace[a][i].x.safe_tx_hash =
                          PyStr(WithoutFirstTwo(HashAnswerBefore(a, i).state.tx_hash.s))
                    /\ behaviour[a] = "MultiSendTxBehaviour" =>
                          LET blob == WithoutFirstTwo(BatchAnswer(a).raw_transaction.data.s)
                          IN  /\ BytesHex(trace[a][i].x.data).s = blob
                              /\ \A j \in RequestsFor(a, "GET_STATE",
                                                        "get_raw_safe_transaction_hash") :
                                    BytesHex(trace[a][j].x.kwargs.data).s = blob

C9_Witness ==
    \E a \in Agents :
        /\ behaviour[a] = "MultiSendTxBehaviour"
        /\ \E i \in DOMAIN trace[a] :
              /\ trace[a][i].ev = "hash_payload_to_hex"
              /\ HashAnswerBefore(a, i).state.tx_hash = PyStr(<<"0", "x", "0", "x", "c", "d">>)
              /\ trace[a][i].x.safe_tx_hash = PyStr(<<"0", "x", "c", "d">>)
              /\ trace[a][i].x.data = PyBytes(<<<<"8", "d">>, <<"0", "0">>>>)

\* C10: in the single-transfer path the descriptor sent to the signing-hash
\* collaborator and the fields given to the encoder describe a transfer of
\* value 1 to the configured target with data b"0x", safe_tx_gas 0, the
\* default operation and chain gnosis.
C10_SingleTransferDescriptor ==
    \A a \in Agents :
        behaviour[a] = "TxPreparationBehaviour" =>
            /\ \A i \in RequestsFor(a, "GET_STATE", "get_raw_safe_transaction_hash") :
                  LET kwargs == trace[a][i].x.kwargs
                  IN  /\ kwargs.value = PyInt(0, 1)
                      /\ kwargs.to_address = params[a].transfer_target_address
                      /\ kwargs.data = PyBytes(<<<<"3", "0">>, <<"7", "8">>>>)
                      /\ kwargs.safe_tx_gas = PyInt(0, 0)
                      /\ "operation" \notin DOMAIN kwargs
                      /\ kwargs.chain_id = "gnosis"
            /\ \A i \in DOMAIN trace[a] :
                  trace[a][i].ev = "hash_payload_to_hex" =>
                      /\ trace[a][i].x.ether_value = PyInt(0, 1)
                      /\ trace[a][i].x.to_address = params[a].transfer_target_address
                      /\ trace[a][i].x.data = PyBytes(<<<<"3", "0">>, <<"7", "8">>>>)
                      /\ trace[a][i].x.safe_tx_gas = PyInt(0, 0)
                      /\ "operation" \notin DOMAIN trace[a][i].x

\* C11: in every behaviour, the body of an answer of the contract api
\* collaborator is read only after the answer's kind was compared with the
\* one kind the call expects and found equal to it.
C11_BodyReadOnlyAfterClassification ==
    \A a \in Agents :
        \A i \in DOMAIN trace[a] :
            trace[a][i].ev = "read_body" =>
                /\ i > 2
                /\ trace[a][i - 1].ev = "compare_kind"
                /\ trace[a][i - 2].ev = "response"
                /\ trace[a][i - 2].x.performative = trace[a][i - 1].x

\* the run of agent a got past its fetches and goes on to the round's end
SubmitsAndWaits(a) ==
    /\ Did(a, "send_a2a_transaction")
    /\ pc[a] \in {"send_a2a_transaction", "wait_until_round_end", "done"}

\* C12: when the balance collaborator answers with a kind other than
\* RAW_TRANSACTION, APICheckBehaviour takes False as the balance, keeps the
\* price it fetched before, and still submits its APICheckPayload and waits
\* for the end of the round.
C12_BalanceFailureDegrades ==
    \A a \in Agents :
        (/\ behaviour[a] = "APICheckBehaviour"
         /\ \E i \in DOMAIN trace[a] :
               trace[a][i].ev = "response" /\ trace[a][i].x.performative # "RAW_TRANSACTION") =>
            /\ loc[a].balance = PyFalse
            /\ loc[a].price = PyFloat(1, 0)
            /\ SubmitsAndWaits(a)
            /\ Submitted(a) = [t |-> "APICheckPayload", sender |-> a,
                               price |-> PyFloat(1, 0), balance |-> PyFalse]

C12_Witness ==
    \E a \in Agents :
        /\ behaviour[a] = "APICheckBehaviour"
        /\ pc[a] = "wait_until_round_end"
        /\ payloads[a] # NoPayload
        /\ payloads[a].balance = PyFalse
        /\ \E i \in DOMAIN trace[a] : trace[a][i].ev = "response" /\ trace[a][i].x = Error

\* C13: in IPFSSendBehaviour a failed fetch, be it a subgraph answer that is
\* not a success or a storage put that gives None, yields the False sentinel
\* for metadata_hash and the behaviour still submits its IPFSSendPayload.
C13_DocumentFailureDegrades ==
    \A a \in Agents :
        (/\ behaviour[a] = "IPFSSendBehaviour"
         /\ \E i \in DOMAIN trace[a] :
               \/ trace[a][i].ev = "requests.post" /\ trace[a][i].x # "ok"
               \/ trace[a][i].ev = "response" /\ trace[a][i].x = PyNone) =>
            /\ SubmitsAndWaits(a)
            /\ Submitted(a).metadata_hash = PyFalse

RequestKind(request) ==
    IF request.t = "contract_api"
    THEN <<request.performative, request.contract_callable>>
    ELSE <<request.t, request.t>>

\* positions in agent a's run at which something outside is called
ExternalCalls(a) ==
    {i \in DOMAIN trace[a] : trace[a][i].ev \in {"request", "requests.post", "yield"}}

\* what the external call at position i of agent a's run asks for
CallKind(a, i) ==
    IF trace[a][i].ev = "request"
    THEN RequestKind(trace[a][i].x)
    ELSE <<trace[a][i].ev, trace[a][i].ev>>

\* C15: within one run of a behaviour each external request is issued at
\* most once, whatever the answers were.
C15_NoLocalRetry ==
    \A a \in Agents :
        \A i, j \in ExternalCalls(a) :
            i # j => CallKind(a, i) # CallKind(a, j)

C15_Witness ==
    \E a \in Agents :
        /\ behaviour[a] = "MultiSendTxBehaviour"
        /\ pc[a] = "returned"
        /\ Cardinality(ExternalCalls(a)) = 4
        /\ HashFailed(a)

\* what agent a's run asked for, in the order it asked
CallsInOrder(a) ==
    LET calls == SelectSeq([i \in DOMAIN trace[a] |-> [at |-> i, e |-> trace[a][i]]],
                           LAMBDA c : c.at \in ExternalCalls(a))
    IN  [k \in DOMAIN calls |-> CallKind(a, calls[k].at)]

\* the order in which a behaviour suspends on the outside
SuspensionOrder(b) ==
    CASE b = "APICheckBehaviour" ->
            <<(<<"yield", "yield">>), (<<"GET_RAW_TRANSACTION", "check_balance">>)>>
      [] b = "IPFSSendBehaviour" ->
            <<(<<"requests.post", "requests.post">>), (<<"send_to_ipfs", "send_to_ipfs">>)>>
      [] b = "IPFSGetBehaviour" -> <<(<<"get_from_ipfs", "get_from_ipfs">>)>>
      [] b = "DecisionMakingBehaviour" -> <<>>
      [] b = "TxPreparationBehaviour" ->
            <<(<<"GET_STATE", "get_raw_safe_transaction_hash">>)>>
      [] b = "MultiSendTxBehaviour" ->
            <<(<<"GET_RAW_TRANSACTION", "get_raw_safe_transaction_hash">>),
              (<<"GET_RAW_TRANSACTION", "build_transfer_tx">>),
              (<<"GET_RAW_TRANSACTION", "get_tx_data">>),
              (<<"GET_STATE", "get_raw_safe_transaction_hash">>)>>

IsPrefix(s, t) == Len(s) <= Len(t) /\ s = SubSeq(t, 1, Len(s))

\* C16: an agent has at most one request outstanding, the one it issued
\* last; every earlier request was answered before the next was issued; the
\* requests come in the fixed order of the behaviour and the payload is
\* submitted after all of them, however the agents' steps interleave.
C16_SequentialSuspension ==
    \A a \in Agents :
        /\ req[a] # NoRequest =>
              /\ trace[a] # <<>>
              /\ trace[a][Len(trace[a])] = Ev("request", req[a])
        /\ \A i \in DOMAIN trace[a] :
              (trace[a][i].ev = "request" /\ i < Len(trace[a])) =>
                  trace[a][i + 1].ev = "response"
        /\ \A i \in DOMAIN trace[a] :
              (trace[a][i].ev = "request" /\ i = Len(trace[a])) => req[a] = trace[a][i].x
        /\ IsPrefix(CallsInOrder(a), SuspensionOrder(behaviour[a]))
        /\ Did(a, "send_a2a_transaction") =>
              /\ CallsInOrder(a) = SuspensionOrder(behaviour[a])
              /\ \A i \in ExternalCalls(a), j \in DOMAIN trace[a] :
                    trace[a][j].ev = "send_a2a_transaction" => i < j

C16_Witness ==
    \E a, b \in Agents :
        /\ a # b
        /\ behaviour[a] = "MultiSendTxBehaviour"
        /\ Did(a, "send_a2a_transaction")
        /\ Len(CallsInOrder(a)) = 4
        /\ behaviour[b] = "MultiSendTxBehaviour"
        /\ pc[b] = "token_transfer_tx"

\* the round that takes the payload of agent a's run has not ended
NotAccepted(a) == round = matching_round(behaviour[a])

\* agent a's run created a directory or handed a document to storage
WroteDurably(a) ==
    \/ Did(a, "mkdtemp")
    \/ \E i \in DOMAIN trace[a] :
          trace[a][i].ev = "request" /\ trace[a][i].x.t = "send_to_ipfs"

\* C17 as stated: in every behaviour, as long as the payload of the run is
\* not accepted, the run has written nothing durable: no directory created,
\* no document put to storage.
C17_NoDurableEffectBeforeAcceptance ==
    \A a \in Agents : NotAccepted(a) => ~WroteDurably(a)

\* C17 amended: a step creates a directory or stores a document only in a
\* run of IPFSSendBehaviour, and there before the payload is submitted; the
\* runs of the five other behaviours write nothing durable.
C17_OnlyIPFSSendWrites ==
    [][\A a \in Agents :
          (tmpdirs'[a] # tmpdirs[a] \/ ipfs'[a] # ipfs[a] \/ (WroteDurably(a)' /\ ~WroteDurably(a))) =>
              /\ behaviour[a] = "IPFSSendBehaviour"
              /\ NotAccepted(a)
              /\ ~Did(a, "send_a2a_transaction")]_vars

C17_Witness ==
    \E a \in Agents :
        /\ behaviour[a] = "IPFSSendBehaviour"
        /\ NotAccepted(a)
        /\ payloads[a] = NoPayload
        /\ tmpdirs[a] = 1
        /\ ipfs[a] = 1

\* the keyword arguments of the one hash request of agent a's run
HashRequestKwargs(a) ==
    LET j == CHOOSE j \in RequestsFor(a, "GET_STATE", "get_raw_safe_transaction_hash") : TRUE
    IN  trace[a][j].x.kwargs

\* C18: in each transaction path the to_address, value, data, safe_tx_gas
\* and operation given to hash_payload_to_hex are the ones sent to the
\* signing-hash collaborator, the operation being left out in both in the
\* single path and DELEGATE_CALL in both in the batch path; safe_tx_gas is 0
\* in every request that carries it.
C18_HashRequestAndEncoderAgree ==
    \A a \in Agents :
        /\ \A i \in DOMAIN trace[a] :
              (trace[a][i].ev = "request" /\ trace[a][i].x.t = "contract_api"
               /\ "safe_tx_gas" \in DOMAIN trace[a][i].x.kwargs) =>
                  trace[a][i].x.kwargs.safe_tx_gas = PyInt(0, 0)
        /\ behaviour[a] \in TransactionBehaviours =>
              \A i \in DOMAIN trace[a] :
                  trace[a][i].ev = "hash_payload_to_hex" =>
                      LET args == trace[a][i].x
                          kwargs == HashRequestKwargs(a)
                      IN  /\ args.to_address = kwargs.to_address
                          /\ args.ether_value = kwargs.value
                          /\ args.data = kwargs.data
                          /\ args.safe_tx_gas = kwargs.safe_tx_gas
                          /\ args.safe_tx_gas = PyInt(0, 0)
                          /\ IF behaviour[a] = "TxPreparationBehaviour"
                             THEN /\ "operation" \notin DOMAIN args
                                  /\ "operation" \notin DOMAIN kwargs
                             ELSE /\ args.operation = "DELEGATE_CALL"
                                  /\ kwargs.operation = "DELEGATE_CALL"

C18_Witness ==
    \E a \in Agents :
        /\ behaviour[a] = "TxPreparationBehaviour"
        /\ pc[a] = "wait_until_round_end"
        /\ \E i \in DOMAIN trace[a] :
              /\ trace[a][i].ev = "hash_payload_to_hex"
              /\ trace[a][i].x.ether_value = HashRequestKwargs(a).value
              /\ trace[a][i].x.safe_tx_hash = PyStr(<<"a", "b">>)

\* positions of an event in agent a's run
Positions(a, name) == {i \in DOMAIN trace[a] : trace[a][i].ev = name}

\* C19: in every run the payload is submitted at most once and after every
\* external call of the run was answered, wait_until_round_end starts after
\* the submission, and set_done comes after the wait, once the round is
\* over, never before a payload was submitted.
C19_SubmitThenWait ==
    \A a \in Agents :
        /\ Cardinality(Positions(a, "send_a2a_transaction")) <= 1
        /\ \A j \in Positions(a, "send_a2a_transaction") :
              /\ \A i \in ExternalCalls(a) : i < j
              /\ \A i \in Positions(a, "request") :
                    \E k \in Positions(a, "response") : i < k /\ k < j
        /\ \A w \in Positions(a, "wait_until_round_end") :
              /\ \E j \in Positions(a, "send_a2a_transaction") : j < w
              /\ Cardinality(Positions(a, "wait_until_round_end")) = 1
        /\ \A d \in Positions(a, "set_done") :
              /\ \E w \in Positions(a, "wait_until_round_end") : w < d
              /\ Cardinality(Positions(a, "set_done")) = 1
              /\ round # matching_round(behaviour[a])
        /\ payloads[a] # NoPayload =>
              /\ Did(a, "send_a2a_transaction")
              /\ payloads[a] = Submitted(a)
        /\ pc[a] = "done" <=> Did(a, "set_done")

C19_Witness ==
    \E a \in Agents :
        /\ behaviour[a] = "MultiSendTxBehaviour"
        /\ pc[a] = "done"
        /\ Did(a, "set_done")
        /\ round = "FinishedTxPreparationRound"

\* C20: every call placed in the batch list is tagged CALL, the native
\* transfer going to the transfer target and the token transfer to the token
\* contract, and the batch descriptor sent to the signing-hash collaborator
\* and given to the encoder is tagged DELEGATE_CALL.
C20_OperationTags ==
    \A a \in Agents :
        behaviour[a] = "MultiSendTxBehaviour" =>
            /\ \A i \in Positions(a, "built") :
                  LET call == trace[a][i].x
                  IN  call.t = "dict" =>
                        /\ call.operation = "CALL"
                        /\ call.to = IF \E j \in Positions(a, "built") : j < i
                                     THEN params[a].contract_token_address
                                     ELSE params[a].transfer_target_address
            /\ \A i \in RequestsFor(a, "GET_RAW_TRANSACTION", "get_tx_data") :
                  \A k \in DOMAIN trace[a][i].x.kwargs.multi_send_txs :
                      LET call == trace[a][i].x.kwargs.multi_send_txs[k]
                      IN  call.t = "dict" => call.operation = "CALL"
            /\ \A i \in RequestsFor(a, "GET_STATE", "get_raw_safe_transaction_hash") :
                  trace[a][i].x.kwargs.operation = "DELEGATE_CALL"
            /\ \A i \in Positions(a, "hash_payload_to_hex") :
                  trace[a][i].x.operation = "DELEGATE_CALL"

C20_Witness ==
    \E a \in Agents :
        /\ behaviour[a] = "MultiSendTxBehaviour"
        /\ Did(a, "hash_payload_to_hex")
        /\ Submitted(a).tx_hash.operation = "DELEGATE_CALL"
        /\ \A k \in DOMAIN HandedCalls(a) : HandedCalls(a)[k].operation = "CALL"

\* the generator of agent a's run is between its start and its end
Running(a) == pc[a] \notin {"wait_until_round_end", "done", "returned", "raised"}

\* the payloads of the round are in and agree
RoundCanEnd ==
    /\ \A a \in Agents : payloads[a] # NoPayload
    /\ \A a, b \in Agents : Content(payloads[a]) = Content(payloads[b])

\* C21, as stated: no run returns from its generator without having marked
\* the behaviour done, on success paths and on failure paths alike.
C21_NoRunEndsUndone ==
    \A a \in Agents : pc[a] = "returned" => Did(a, "set_done")

\* C21, amended: when collaborators answer, every run reaches its wait for
\* the round end, returns, or raises; a run that waits calls set_done once
\* the round has ended, and all do when the payloads agree; a run returns
\* only in MultiSendTxBehaviour after a failed hash request, and a run that
\* returned or raised has submitted nothing and has not called set_done.
C21_SubmittingRunsComplete ==
    \A a \in Agents :
          /\ Running(a) ~> (pc[a] \in {"wait_until_round_end", "returned", "raised"})
          /\ (pc[a] = "wait_until_round_end" /\ round # matching_round(behaviour[a]))
                ~> (pc[a] = "done")
          /\ RoundCanEnd ~> (pc[a] = "done")
          /\ [](pc[a] = "returned" =>
                  /\ behaviour[a] = "MultiSendTxBehaviour"
                  /\ \E i \in HashAnswers(a) : trace[a][i].x.performative # "STATE")
          /\ [](pc[a] \in {"returned", "raised"} =>
                  /\ ~Did(a, "send_a2a_transaction")
                  /\ ~Did(a, "set_done"))

C21_Witness ==
    \E a, b \in Agents :
        /\ behaviour[a] = "MultiSendTxBehaviour" /\ pc[a] = "returned"
        /\ behaviour[b] = "MultiSendTxBehaviour" /\ pc[b] = "wait_until_round_end"
        /\ payloads[b] # NoPayload

====
